---- MODULE Spec2Model ----
(***************************************************************************)
(* Model of src/bot.py: startup (main loads the catalog file and builds    *)
(* the application), the catalog store and the links and keyboards built   *)
(* from its records, the handlers of the Telegram guide bot, the slot      *)
(* context.user_data["photo_message_id"] that tracks the last photo sent,  *)
(* and the transport calls (answer, edit_message_text, reply_text,         *)
(* send_photo, delete_message) each handler issues, in order.              *)
(*                                                                         *)
(* One action of Next is main() or one update dispatched to its registered *)
(* handler and run to completion (handlers are awaited one at a time).     *)
(* The outcome of every transport call is an input of the action: each     *)
(* call may succeed or raise TelegramError.                                *)
(***************************************************************************)
EXTENDS Integers, Sequences, FiniteSets, TLC

VARIABLES
    source,       \* what main() finds: the catalog file and TELEGRAM_TOKEN
    phase,        \* "boot" before main(), then "running" or "aborted"
    startup_error,\* the exception that left main(), "" if none
    storage,      \* AttractionStorage._items: records in insertion order
    result,       \* value returned by the last call of a catalog query
    user_data,    \* user -> context.user_data.get("photo_message_id"), 0 = absent
    photo_chat,   \* history: user -> chat in which the tracked photo was sent
    photos,       \* <<chat, message_id>> of bot photos present in a chat
    lastId,       \* chat -> highest message_id the transport has assigned there
    attempted,    \* history: <<chat, message_id>> of photos passed to delete_message
    update,       \* the update handled by the last action
    before,       \* user_data / photo_chat of the acting user before that action
    trace,        \* transport calls and slot writes of the last action, in order
    raised,       \* the last handler let an exception reach the application
    error_log     \* what log_application_error logged for the last update

vars == <<source, phase, startup_error, storage, result, user_data,
          photo_chat, photos, lastId, attempted, update, before, trace,
          raised, error_log>>

-----------------------------------------------------------------------------
\* Bounds of the model.

\* Number of photos the bot sends in a behaviour, over all chats.
MaxPhotos == 2

\* Longest catalog payload.
MaxPayload == 2

Users == {"u1", "u2"}
Chats == {"c1", "c2"}
NoChat == "none"

\* Who can act where: c1 is a group both users belong to, c2 is the private
\* chat of u1 with the bot.
Members == {<<"u1", "c1">>, <<"u2", "c1">>, <<"u1", "c2">>}

\* Identifiers that occur in payloads, and one that never does.
PayloadIds == {"a"}
ActionIds == PayloadIds \cup {"zzz"}

MenuTags == {"main", "attractions", "help", "other"}

-----------------------------------------------------------------------------
\* Catalog payload: what json.load returns for the catalog file.

ItemKeys == {"id", "name", "description", "address", "coordinates", "lat",
             "lon", "image_url"}

\* A JSON scalar under coordinates: a number (kept in tenths of a degree) or
\* something float() rejects.
Number(n) == [numeric |-> TRUE, value |-> n]
NotANumber == [numeric |-> FALSE, value |-> 0]

\* One object of the payload: the keys it has, and the values the catalog
\* keeps.
Item(keys, id, name, lat, lon) ==
    [keys |-> keys, id |-> id, name |-> name, lat |-> lat, lon |-> lon]

GoodItem(id, name) == Item(ItemKeys, id, name, Number(570), Number(349))

\* Objects of the payloads the handlers run on: a complete one per
\* identifier, one without "name", one whose latitude is not numeric.
Items ==
    {GoodItem(id, "A") : id \in PayloadIds}
      \cup {Item(ItemKeys \ {"name"}, "a", "", Number(570), Number(349)),
            Item(ItemKeys, "a", "A", NotANumber, Number(349))}

Payloads == UNION {[1..n -> Items] : n \in 0..MaxPayload}

\* The file may be missing and TELEGRAM_TOKEN may be unset.
Sources ==
    {[exists |-> e, payload |-> p, token |-> t] :
        e \in BOOLEAN, p \in Payloads, t \in BOOLEAN}

-----------------------------------------------------------------------------
\* Catalog store.

None == [identifier |-> "", name |-> "", latitude |-> 0, longitude |-> 0]

\* Attraction(identifier=item["id"], ..., image_url=item["image_url"]): the
\* exception the construction raises, "" if none.  Keys are read in the order
\* of the keyword arguments.
ItemError(item) ==
    CASE {"id", "name", "description", "address", "coordinates", "lat"}
             \ item.keys # {} -> "KeyError"
      [] ~item.lat.numeric -> "ValueError"
      [] "lon" \notin item.keys -> "KeyError"
      [] ~item.lon.numeric -> "ValueError"
      [] "image_url" \notin item.keys -> "KeyError"
      [] OTHER -> ""

MakeAttraction(item) ==
    [identifier |-> item.id, name |-> item.name,
     latitude |-> item.lat.value, longitude |-> item.lon.value]

RECURSIVE DictItems(_, _)
\* {item.identifier: item for item in items}: a key keeps the position of its
\* first insertion and the value of its last.
DictItems(items, acc) ==
    IF items = <<>> THEN acc
    ELSE LET it == Head(items)
             at == {i \in 1..Len(acc) : acc[i].identifier = it.identifier}
         IN DictItems(Tail(items),
                      IF at = {} THEN Append(acc, it)
                      ELSE [i \in 1..Len(acc) |->
                               IF i \in at THEN it ELSE acc[i]])

StorageInit(items) == DictItems(items, <<>>)

RECURSIVE Attractions_SkipInvalid(_)
\* Variant: an object that cannot be converted is left out of the list.
Attractions_SkipInvalid(payload) ==
    IF payload = <<>> THEN [error |-> "", items |-> <<>>]
    ELSE LET rest == Attractions_SkipInvalid(Tail(payload))
         IN IF ItemError(Head(payload)) # "" THEN rest
            ELSE [rest EXCEPT
                    !.items = <<MakeAttraction(Head(payload))>> \o @]

RECURSIVE Attractions(_)
\* [Attraction(...) for item in payload]: the first exception ends the
\* comprehension and nothing of the list survives.
Attractions(payload) ==
    IF payload = <<>> THEN [error |-> "", items |-> <<>>]
    ELSE IF ItemError(Head(payload)) # ""
         THEN [error |-> ItemError(Head(payload)), items |-> <<>>]
         ELSE LET rest == Attractions(Tail(payload))
              IN IF rest.error # "" THEN rest
                 ELSE [rest EXCEPT
                         !.items = <<MakeAttraction(Head(payload))>> \o @]

\* Variant: the catalog is built from the objects that could be converted.
FromJson_SkipInvalid(src) ==
    IF ~src.exists THEN [error |-> "FileNotFoundError", storage |-> <<>>]
    ELSE [error |-> "",
          storage |-> StorageInit(Attractions_SkipInvalid(src.payload).items)]

\* AttractionStorage.from_json(path)
FromJson(src) ==
    IF ~src.exists THEN [error |-> "FileNotFoundError", storage |-> <<>>]
    ELSE LET attractions == Attractions(src.payload)
         IN IF attractions.error # ""
            THEN [error |-> attractions.error, storage |-> <<>>]
            ELSE [error |-> "", storage |-> StorageInit(attractions.items)]

StorageAll == storage

\* Variant: only the first record of the store is looked at.
StorageGet_FirstOnly(identifier) ==
    IF storage # <<>> /\ storage[1].identifier = identifier
    THEN storage[1]
    ELSE None

\* dict.get: the record, or None.
StorageGet(identifier) ==
    IF \E i \in 1..Len(storage) : storage[i].identifier = identifier
    THEN storage[CHOOSE i \in 1..Len(storage) :
                    storage[i].identifier = identifier]
    ELSE None

-----------------------------------------------------------------------------
\* Links.  A string is a sequence of characters; the fixed parts of a link
\* are kept as one element each.

DecimalDigits == <<"0", "1", "2", "3", "4", "5", "6", "7", "8", "9">>

RECURSIVE Digits(_)
\* Decimal digits of a natural number, most significant first.
Digits(k) ==
    IF k < 10 THEN <<DecimalDigits[k + 1]>>
    ELSE Digits(k \div 10) \o <<DecimalDigits[(k % 10) + 1]>>

\* Variant: the sign of the number is not written.
FloatRepr_Unsigned(n) ==
    LET a == IF n < 0 THEN -n ELSE n
    IN Digits(a \div 10) \o <<".">> \o Digits(a % 10)

\* f"{x}" for a float x of n tenths: sign, integer part, point, fraction.
FloatRepr(n) ==
    LET a == IF n < 0 THEN -n ELSE n
    IN (IF n < 0 THEN <<"-">> ELSE <<>>)
         \o Digits(a \div 10) \o <<".">> \o Digits(a % 10)

\* Variant: latitude is written before longitude.
MapLink_LatFirst(attraction) ==
    <<"https://yandex.ru/maps/?", "pt=">>
      \o FloatRepr(attraction.latitude) \o <<",">>
      \o FloatRepr(attraction.longitude) \o <<"&z=16&l=map">>

\* Attraction.map_link
MapLink(attraction) ==
    <<"https://yandex.ru/maps/?", "pt=">>
      \o FloatRepr(attraction.longitude) \o <<",">>
      \o FloatRepr(attraction.latitude) \o <<"&z=16&l=map">>

\* Attraction.route_link
RouteLink(attraction) ==
    <<"https://yandex.ru/maps/?", "rtext=~">>
      \o FloatRepr(attraction.latitude) \o <<"%2C">>
      \o FloatRepr(attraction.longitude) \o <<"&rtt=auto">>

-----------------------------------------------------------------------------
\* Keyboards.

Button(text, callback_data, url) ==
    [text |-> text, callback_data |-> callback_data, url |-> url]

NoUrl == <<>>

\* A message sent without reply_markup.
NoMarkup == <<>>

\* build_main_menu_keyboard()
BuildMainMenuKeyboard ==
    <<Button("Attractions", <<"menu:", "attractions">>, NoUrl),
      Button("Help", <<"menu:", "help">>, NoUrl)>>

\* Variant: the back button is not appended.
BuildAttractionsKeyboard_NoBack(attractions) ==
    [i \in 1..Len(attractions) |->
        Button(attractions[i].name,
               <<"attraction:", attractions[i].identifier>>, NoUrl)]

\* build_attractions_keyboard(attractions); callback_data is
\* f"attraction:{item.identifier}", kept as prefix and identifier.
BuildAttractionsKeyboard(attractions) ==
    Append([i \in 1..Len(attractions) |->
               Button(attractions[i].name,
                      <<"attraction:", attractions[i].identifier>>, NoUrl)],
           Button("Back", <<"menu:", "main">>, NoUrl))

\* The keyboard attraction_details builds for the record it found.
DetailKeyboard(attraction) ==
    <<Button("Map", <<>>, MapLink(attraction)),
      Button("Route", <<>>, RouteLink(attraction)),
      Button("BackToList", <<"menu:", "attractions">>, NoUrl)>>

-----------------------------------------------------------------------------
\* Updates.

Command(name, user, chat, edited) ==
    [type |-> "command", name |-> name, arg |-> "", user |-> user,
     chat |-> chat, edited |-> edited]

\* query.data.partition(":") gives name and arg.
Callback(name, arg, user, chat) ==
    [type |-> "callback", name |-> name, arg |-> arg, user |-> user,
     chat |-> chat, edited |-> FALSE]

NoUpdate ==
    [type |-> "none", name |-> "", arg |-> "", user |-> "", chat |-> NoChat,
     edited |-> FALSE]

\* update.message: set for a new message, None for an edited one or a callback.
HasMessage(u) == u.type = "command" /\ ~u.edited

\* update.callback_query (its message and chat are always present: the bot
\* attaches its buttons to ordinary chat messages only).
HasCallbackQuery(u) == u.type = "callback"

\* update.effective_chat
HasChat(u) == u.chat # NoChat

-----------------------------------------------------------------------------
\* Transport calls.  m is the state a handler threads through its steps; env
\* holds the outcomes the transport gives this handler run.

Event(op, chat, mid, screen, ok) ==
    [op |-> op, chat |-> chat, mid |-> mid, screen |-> screen, ok |-> ok,
     markup |-> NoMarkup]

\* A text sent or edited with reply_markup.
WithMarkup(ev, reply_markup) == [ev EXCEPT !.markup = reply_markup]

Log(m, ev) == [m EXCEPT !.trace = Append(@, ev)]

\* await query.answer()
Answer(m, u, env) ==
    IF m.raised THEN m
    ELSE [Log(m, Event("answer", u.chat, 0, "", env.answerOk))
             EXCEPT !.raised = ~env.answerOk]

\* await query.edit_message_text(...)
EditMessageText(m, u, screen, reply_markup, env) ==
    IF m.raised THEN m
    ELSE [Log(m, WithMarkup(Event("editText", u.chat, 0, screen,
                                 env.renderOk), reply_markup))
             EXCEPT !.raised = ~env.renderOk]

\* Variant: the TelegramError of reply_text is caught inside the handler.
ReplyText_Swallowed(m, u, screen, reply_markup, env) ==
    IF m.raised THEN m
    ELSE Log(m, WithMarkup(Event("sendText", u.chat, 0, screen,
                                 env.renderOk), reply_markup))

\* await update.message.reply_text(...)
ReplyText(m, u, screen, reply_markup, env) ==
    IF m.raised THEN m
    ELSE [Log(m, WithMarkup(Event("sendText", u.chat, 0, screen,
                                 env.renderOk), reply_markup))
             EXCEPT !.raised = ~env.renderOk]

\* await context.bot.send_photo(chat_id=chat_id, ...); m.ret is message_id.
SendPhoto(m, chat, env) ==
    IF m.raised THEN m
    ELSE IF env.photoOk
         THEN [Log(m, Event("sendPhoto", chat, env.photoId, "", TRUE))
                  EXCEPT !.lastId[chat] = env.photoId,
                         !.photos = @ \cup {<<chat, env.photoId>>},
                         !.ret = env.photoId]
         ELSE [Log(m, Event("sendPhoto", chat, 0, "", FALSE))
                  EXCEPT !.raised = TRUE]

\* await context.bot.delete_message(chat_id=chat_id, message_id=message_id)
DeleteMessage(m, chat, message_id, env) ==
    IF m.raised THEN m
    ELSE [Log(m, Event("deleteMessage", chat, message_id, "", env.delOk))
             EXCEPT !.photos = IF env.delOk THEN @ \ {<<chat, message_id>>} ELSE @,
                    !.attempted = IF message_id <= m.lastId[chat]
                                  THEN @ \cup {<<chat, message_id>>} ELSE @,
                    !.raised = ~env.delOk]

\* Variant: the value is read with get, the key stays in user_data.
PopSlot_Peek(m, user, chat) ==
    [Log(m, Event("pop", chat, m.user_data[user], "", TRUE))
        EXCEPT !.ret = m.user_data[user]]

\* context.user_data.pop("photo_message_id", None); m.ret is the popped value.
PopSlot(m, user, chat) ==
    [Log(m, Event("pop", chat, m.user_data[user], "", TRUE))
        EXCEPT !.user_data[user] = 0,
               !.photo_chat[user] = NoChat,
               !.ret = m.user_data[user]]

\* context.user_data["photo_message_id"] = photo_message.message_id
StoreSlot(m, user, chat, message_id) ==
    IF m.raised THEN m
    ELSE [Log(m, Event("store", chat, message_id, "", TRUE))
             EXCEPT !.user_data[user] = message_id,
                    !.photo_chat[user] = chat]

-----------------------------------------------------------------------------
\* Handlers.

\* Variant: the TelegramError of delete_message is not caught.
DeletePreviousPhoto_Propagate(m, user, chat, env) ==
    IF m.raised THEN m
    ELSE LET m1 == PopSlot(m, user, chat)
         IN IF m1.ret = 0 THEN m1
            ELSE DeleteMessage(m1, chat, m1.ret, env)

\* Variant: delete_message is called without the "if not message_id" return.
DeletePreviousPhoto_Always(m, user, chat, env) ==
    IF m.raised THEN m
    ELSE LET m1 == PopSlot(m, user, chat)
         IN [DeleteMessage(m1, chat, m1.ret, env) EXCEPT !.raised = FALSE]

DeletePreviousPhoto(m, user, chat, env) ==
    IF m.raised THEN m
    ELSE LET m1 == PopSlot(m, user, chat)
         IN IF m1.ret = 0 THEN m1
            ELSE [DeleteMessage(m1, chat, m1.ret, env) EXCEPT !.raised = FALSE]

SendMainMenu(m, u, via_callback, env) ==
    LET m1 == IF HasChat(u) THEN DeletePreviousPhoto(m, u.user, u.chat, env)
              ELSE m
    IN IF via_callback /\ HasCallbackQuery(u)
       THEN EditMessageText(m1, u, "MainMenu", BuildMainMenuKeyboard, env)
       ELSE IF HasMessage(u) THEN ReplyText(m1, u, "MainMenu",
                                            BuildMainMenuKeyboard, env)
            ELSE m1

Start(m, u, env) == SendMainMenu(m, u, FALSE, env)

HelpCommand(m, u, env) ==
    IF HasMessage(u)
    THEN LET m1 == IF HasChat(u) THEN DeletePreviousPhoto(m, u.user, u.chat, env)
                   ELSE m
         IN ReplyText(m1, u, "Help", BuildMainMenuKeyboard, env)
    ELSE m

\* Variant: the list is rendered without delete_previous_photo.
ShowAttractions_NoClear(m, u, env) ==
    IF StorageAll = <<>>
    THEN IF HasCallbackQuery(u) THEN EditMessageText(m, u, "EmptyNotice",
                                                     NoMarkup, env)
         ELSE IF HasMessage(u) THEN ReplyText(m, u, "EmptyNotice",
                                              NoMarkup, env)
              ELSE m
    ELSE IF HasCallbackQuery(u)
         THEN EditMessageText(m, u, "AttractionList",
                              BuildAttractionsKeyboard(StorageAll), env)
         ELSE IF HasMessage(u) THEN ReplyText(m, u, "AttractionList",
                                              BuildAttractionsKeyboard(StorageAll), env)
              ELSE m

ShowAttractions(m, u, env) ==
    IF StorageAll = <<>>
    THEN IF HasCallbackQuery(u) THEN EditMessageText(m, u, "EmptyNotice",
                                                     NoMarkup, env)
         ELSE IF HasMessage(u) THEN ReplyText(m, u, "EmptyNotice",
                                              NoMarkup, env)
              ELSE m
    ELSE LET m1 == IF HasChat(u)
                   THEN DeletePreviousPhoto(m, u.user, u.chat, env)
                   ELSE m
         IN IF HasCallbackQuery(u)
            THEN EditMessageText(m1, u, "AttractionList",
                                 BuildAttractionsKeyboard(StorageAll), env)
            ELSE IF HasMessage(u) THEN ReplyText(m1, u, "AttractionList",
                                                 BuildAttractionsKeyboard(StorageAll), env)
                 ELSE m1

\* Variant: delete_previous_photo is called before the detail text is edited.
AttractionDetails_ClearFirst(m, u, env) ==
    IF ~HasCallbackQuery(u) THEN m
    ELSE LET m1 == Answer(m, u, env)
         IN IF StorageGet(u.arg) = None
            THEN EditMessageText(m1, u, "NotFound", NoMarkup, env)
            ELSE LET m2 == DeletePreviousPhoto(m1, u.user, u.chat, env)
                     m3 == EditMessageText(m2, u, "AttractionDetail",
                                           DetailKeyboard(StorageGet(u.arg)), env)
                     m4 == SendPhoto(m3, u.chat, env)
                 IN StoreSlot(m4, u.user, u.chat, m4.ret)

\* Variant: delete_previous_photo is called before the lookup.
AttractionDetails_ClearOnMiss(m, u, env) ==
    IF ~HasCallbackQuery(u) THEN m
    ELSE LET m1 == DeletePreviousPhoto(Answer(m, u, env), u.user, u.chat, env)
         IN IF StorageGet(u.arg) = None
            THEN EditMessageText(m1, u, "NotFound", NoMarkup, env)
            ELSE LET m2 == EditMessageText(m1, u, "AttractionDetail",
                                           DetailKeyboard(StorageGet(u.arg)), env)
                     m4 == SendPhoto(m2, u.chat, env)
                 IN StoreSlot(m4, u.user, u.chat, m4.ret)

AttractionDetails(m, u, env) ==
    IF ~HasCallbackQuery(u) THEN m
    ELSE LET m1 == Answer(m, u, env)
         IN IF StorageGet(u.arg) = None
            THEN EditMessageText(m1, u, "NotFound", NoMarkup, env)
            ELSE LET m2 == EditMessageText(m1, u, "AttractionDetail",
                                           DetailKeyboard(StorageGet(u.arg)), env)
                     m3 == DeletePreviousPhoto(m2, u.user, u.chat, env)
                     m4 == SendPhoto(m3, u.chat, env)
                 IN StoreSlot(m4, u.user, u.chat, m4.ret)

\* Variant: with a photo tracked, the "help" branch shows the main menu.
HandleMenu_HelpAsMain(m, u, env) ==
    IF ~HasCallbackQuery(u) THEN m
    ELSE LET m1 == Answer(m, u, env)
         IN CASE u.arg = "main" ->
                   SendMainMenu(DeletePreviousPhoto(m1, u.user, u.chat, env),
                                u, TRUE, env)
              [] u.arg = "attractions" -> ShowAttractions(m1, u, env)
              [] u.arg = "help" ->
                   IF m.user_data[u.user] # 0
                   THEN SendMainMenu(m1, u, TRUE, env)
                   ELSE EditMessageText(m1, u, "Help",
                                        BuildMainMenuKeyboard, env)
              [] OTHER -> m1

\* Variant: a tag that is none of the three falls through to the main menu.
HandleMenu_OtherAsMain(m, u, env) ==
    IF ~HasCallbackQuery(u) THEN m
    ELSE LET m1 == Answer(m, u, env)
         IN CASE u.arg = "attractions" -> ShowAttractions(m1, u, env)
              [] u.arg = "help" ->
                   EditMessageText(DeletePreviousPhoto(m1, u.user, u.chat, env),
                                   u, "Help", BuildMainMenuKeyboard, env)
              [] OTHER ->
                   SendMainMenu(DeletePreviousPhoto(m1, u.user, u.chat, env),
                                u, TRUE, env)

HandleMenu(m, u, env) ==
    IF ~HasCallbackQuery(u) THEN m
    ELSE LET m1 == Answer(m, u, env)
         IN CASE u.arg = "main" ->
                   SendMainMenu(DeletePreviousPhoto(m1, u.user, u.chat, env),
                                u, TRUE, env)
              [] u.arg = "attractions" -> ShowAttractions(m1, u, env)
              [] u.arg = "help" ->
                   EditMessageText(DeletePreviousPhoto(m1, u.user, u.chat, env),
                                   u, "Help", BuildMainMenuKeyboard, env)
              [] OTHER -> m1

-----------------------------------------------------------------------------
\* Dispatch of one update.

\* The outcome of a call is an input of the handler run.  delete_message is
\* reached only with a tracked photo, so its outcome is an input only then.
DelOutcomes(user) == IF user_data[user] = 0 THEN {TRUE} ELSE BOOLEAN

\* Outcomes of the calls a command handler can issue.
CommandEnvs(user) ==
    {[answerOk |-> TRUE, delOk |-> d, renderOk |-> r, photoOk |-> TRUE,
      photoId |-> 0] : d \in DelOutcomes(user), r \in BOOLEAN}

\* Outcomes of the calls handle_menu can issue.
MenuEnvs(user) ==
    {[answerOk |-> a, delOk |-> d, renderOk |-> r, photoOk |-> TRUE,
      photoId |-> 0] : a \in BOOLEAN, d \in DelOutcomes(user), r \in BOOLEAN}

\* Outcomes of the calls attraction_details can issue.  Message identifiers
\* are unique inside a chat and grow: the next photo of a chat gets the next
\* identifier of that chat.
DetailEnvs(user, chat) ==
    {[answerOk |-> a, delOk |-> d, renderOk |-> r, photoOk |-> p,
      photoId |-> lastId[chat] + 1] :
        a \in BOOLEAN, d \in DelOutcomes(user), r \in BOOLEAN, p \in BOOLEAN}

RECURSIVE Sum(_, _)
Sum(f, S) == IF S = {} THEN 0
             ELSE LET x == CHOOSE y \in S : TRUE IN f[x] + Sum(f, S \ {x})

PhotosSent == Sum(lastId, Chats)

Begin ==
    [user_data |-> user_data, photo_chat |-> photo_chat, photos |-> photos,
     lastId |-> lastId, attempted |-> attempted,
     trace |-> <<>>, raised |-> FALSE, ret |-> 0]

\* Variant: the record is written without the update.
LogApplicationError_NoUpdate(u, error) ==
    [update |-> NoUpdate, exc_info |-> error]

\* log_application_error(update, context): what logger.error receives.
LogApplicationError(u, error) ==
    [update |-> u, exc_info |-> error]

NoLog == [update |-> NoUpdate, exc_info |-> FALSE]

\* application.run_polling() runs the handler of the update; an exception
\* that leaves the handler is passed, with the update, to the registered
\* error handler.
Commit(m, u) ==
    /\ phase = "running"
    /\ user_data' = m.user_data
    /\ photo_chat' = m.photo_chat
    /\ photos' = m.photos
    /\ lastId' = m.lastId
    /\ trace' = m.trace
    /\ raised' = m.raised
    /\ attempted' = m.attempted
    /\ error_log' = IF m.raised THEN LogApplicationError(u, TRUE) ELSE NoLog
    /\ update' = u
    /\ before' = [slot |-> user_data[u.user], chat |-> photo_chat[u.user]]
    /\ UNCHANGED <<source, phase, startup_error, storage, result>>

\* CommandHandler("start", start)
OnStart ==
    \E mc \in Members, edited \in BOOLEAN :
      \E env \in CommandEnvs(mc[1]) :
        LET u == Command("start", mc[1], mc[2], edited)
        IN Commit(Start(Begin, u, env), u)

\* CommandHandler("help", help_command)
OnHelp ==
    \E mc \in Members, edited \in BOOLEAN :
      \E env \in CommandEnvs(mc[1]) :
        LET u == Command("help", mc[1], mc[2], edited)
        IN Commit(HelpCommand(Begin, u, env), u)

\* CommandHandler("attractions", show_attractions)
OnAttractions ==
    \E mc \in Members, edited \in BOOLEAN :
      \E env \in CommandEnvs(mc[1]) :
        LET u == Command("attractions", mc[1], mc[2], edited)
        IN Commit(ShowAttractions(Begin, u, env), u)

\* CallbackQueryHandler(handle_menu, pattern=r"^menu:")
OnMenu ==
    \E mc \in Members, tag \in MenuTags :
      \E env \in MenuEnvs(mc[1]) :
        LET u == Callback("menu", tag, mc[1], mc[2])
        IN Commit(HandleMenu(Begin, u, env), u)

\* CallbackQueryHandler(attraction_details, pattern=r"^attraction:")
OnAttraction ==
    \E mc \in Members, id \in ActionIds :
      \E env \in DetailEnvs(mc[1], mc[2]) :
        LET u == Callback("attraction", id, mc[1], mc[2])
        IN /\ StorageGet(id) # None => PhotosSent < MaxPhotos
           /\ Commit(AttractionDetails(Begin, u, env), u)

\* Variant: the application is built whether or not TELEGRAM_TOKEN is set.
BuildApplication_NoTokenCheck(src) == ""

\* build_application(storage): the exception it raises, "" if none.
BuildApplication(src) == IF ~src.token THEN "RuntimeError" ELSE ""

\* main(): load the catalog, build the application, start polling.  An
\* exception of either step leaves main() and ends the process.
Main ==
    /\ phase = "boot"
    /\ LET loaded == FromJson(source)
           error == IF loaded.error # "" THEN loaded.error
                    ELSE BuildApplication(source)
       IN /\ startup_error' = error
          /\ phase' = IF error = "" THEN "running" ELSE "aborted"
          /\ storage' = IF error = "" THEN loaded.storage ELSE storage
    /\ UNCHANGED <<source, result, user_data, photo_chat, photos, lastId,
                   attempted, update, before, trace, raised, error_log>>

NoResult == [call |-> "", arg |-> "", value |-> <<>>]

\* The state every process starts in, whatever it finds on disk.
Boot ==
    /\ phase = "boot"
    /\ startup_error = ""
    /\ storage = <<>>
    /\ result = NoResult
    /\ user_data = [u \in Users |-> 0]
    /\ photo_chat = [u \in Users |-> NoChat]
    /\ photos = {}
    /\ lastId = [c \in Chats |-> 0]
    /\ attempted = {}
    /\ error_log = NoLog
    /\ update = NoUpdate
    /\ before = [slot |-> 0, chat |-> NoChat]
    /\ trace = <<>>
    /\ raised = FALSE

Init ==
    /\ source \in Sources
    /\ Boot

Next == Main \/ OnStart \/ OnHelp \/ OnAttractions \/ OnMenu \/ OnAttraction

Spec == Init /\ [][Next]_vars

-----------------------------------------------------------------------------
\* Vocabulary of the properties: the calls of the last handled update.

RenderOps == {"editText", "sendText"}

Calls(ops) == {i \in 1..Len(trace) : trace[i].op \in ops}

Ops == [i \in 1..Len(trace) |-> trace[i].op]

IsPrefix(s, t) == Len(s) <= Len(t) /\ \A i \in 1..Len(s) : s[i] = t[i]

\* The update gives the handler something to render into.
HasReplyTarget == HasMessage(update) \/ HasCallbackQuery(update)

AnswerFailed == \E i \in Calls({"answer"}) : ~trace[i].ok

\* An exception reached the application, and it came from the last call.
RaisedByLastCall(ops) ==
    /\ trace # <<>>
    /\ trace[Len(trace)].op \in ops
    /\ ~trace[Len(trace)].ok

\* Screens other than the attraction detail.
OtherScreens == {"MainMenu", "Help", "AttractionList", "EmptyNotice"}

FoundAttraction ==
    update.name = "attraction" /\ StorageGet(update.arg) # None

MissedAttraction ==
    update.name = "attraction" /\ StorageGet(update.arg) = None

Tracked(c) == {u \in Users : user_data[u] # 0 /\ photo_chat[u] = c}

PhotosIn(c) == {p \in photos : p[1] = c}

-----------------------------------------------------------------------------
\* C1: after any sequence of actions handled one at a time, at most one
\* photo reference is tracked for a chat (a second detail action overwrites
\* the one slot of the chat, references never accumulate).
C1_OneReferencePerChat ==
    \A c \in Chats : Cardinality(Tracked(c)) <= 1

\* C2: between two actions, at most one photo sent by the bot is present in
\* a chat, whatever the actions and transport outcomes before.
C2_OnePhotoPerChat ==
    \A c \in Chats : Cardinality(PhotosIn(c)) <= 1


\* C3: when an action issues the render call of a screen other than the
\* attraction detail (main menu, help, attraction list, empty-catalog
\* notice), the slot of the acting user was emptied, and delete_message
\* called for the photo it tracked, before that render call; and the slot is
\* empty once the action is over.
C3_ClearBeforeRender ==
    \A i \in Calls(RenderOps) :
        trace[i].screen \in OtherScreens =>
            /\ user_data[update.user] = 0
            /\ before.slot # 0 =>
                 \E j \in 1..(i - 1), k \in 1..(i - 1) :
                    /\ j < k
                    /\ trace[j].op = "pop" /\ trace[j].mid = before.slot
                    /\ trace[k].op = "deleteMessage"
                    /\ trace[k].mid = before.slot

\* A main menu, help or list screen rendered while a photo was tracked.
C3_Witness ==
    /\ before.slot # 0
    /\ ~raised
    /\ \E i \in Calls(RenderOps) : trace[i].screen \in OtherScreens /\ trace[i].ok
    /\ Calls({"deleteMessage"}) # {}
    /\ user_data[update.user] = 0


\* The calls attraction_details issues for an identifier of the catalog, in
\* the order it issues them.
DetailOrder ==
    IF before.slot = 0
    THEN <<"answer", "editText", "pop", "sendPhoto", "store">>
    ELSE <<"answer", "editText", "pop", "deleteMessage", "sendPhoto", "store">>

\* C4 as stated: for an attraction action whose identifier is in the
\* catalog, the tracked photo is cleared first, then the detail text is
\* rendered, then the new photo is sent, and last its reference is recorded.
C4_ClearRenderSendRecord ==
    (FoundAttraction /\ ~raised) =>
        \E c, r, p, s \in 1..Len(trace) :
            /\ c < r /\ r < p /\ p < s
            /\ trace[c].op = "pop"
            /\ trace[r].op = "editText" /\ trace[r].screen = "AttractionDetail"
            /\ trace[p].op = "sendPhoto"
            /\ trace[s].op = "store"

\* C4 as amended: for an attraction action whose identifier is in the
\* catalog, the detail text is rendered first, then the tracked photo is
\* cleared (slot emptied, delete_message called if it held a reference), then
\* the new photo is sent, and last its reference is recorded as the slot of
\* the acting user; a call that raises ends the sequence there.
C4_RenderClearSendRecord ==
    FoundAttraction =>
        /\ IsPrefix(Ops, DetailOrder)
        /\ ~raised => Ops = DetailOrder
        /\ raised => RaisedByLastCall({"answer", "editText", "sendPhoto"})
        /\ \A r \in Calls({"editText"}) : trace[r].screen = "AttractionDetail"
        /\ \A d \in Calls({"deleteMessage"}) : trace[d].mid = before.slot
        /\ \A s \in Calls({"store"}) :
              /\ trace[s - 1].ok
              /\ trace[s].mid = trace[s - 1].mid
              /\ user_data[update.user] = trace[s].mid

\* A detail action that replaced a tracked photo, every call succeeding.
C4_Witness ==
    /\ FoundAttraction
    /\ ~raised
    /\ before.slot # 0
    /\ Len(trace) = 6
    /\ user_data[update.user] = trace[5].mid
    /\ user_data[update.user] # before.slot


\* C5: a delete_message that fails never blocks the screen.  The slot is
\* emptied right before every delete_message call; when the call fails, the
\* handler goes on to the calls that follow it (the render call of a menu,
\* help or list action that has something to render into, send_photo of a
\* detail action), the failure does not reach the application, and the slot
\* stays empty unless a new photo is recorded.
C5_DeleteFailureSwallowed ==
    \A k \in Calls({"deleteMessage"}) :
        /\ k > 1
        /\ trace[k - 1].op = "pop"
        /\ trace[k - 1].mid = trace[k].mid
        /\ ~trace[k].ok =>
            /\ raised => RaisedByLastCall(RenderOps \cup {"sendPhoto"})
            /\ FoundAttraction =>
                 \E p \in (k + 1)..Len(trace) : trace[p].op = "sendPhoto"
            /\ (~FoundAttraction /\ HasReplyTarget) =>
                 \E r \in (k + 1)..Len(trace) : trace[r].op \in RenderOps
            /\ Calls({"store"}) = {} => user_data[update.user] = 0

\* A failed delete_message followed by a successful render.
C5_Witness ==
    /\ ~raised
    /\ \E k \in Calls({"deleteMessage"}) :
          /\ ~trace[k].ok
          /\ \E r \in (k + 1)..Len(trace) :
                trace[r].op \in RenderOps /\ trace[r].ok
    /\ user_data[update.user] = 0

\* C6: the slot is set only after send_photo returned: every write of the
\* slot directly follows a successful send_photo and records its message
\* identifier and chat, a failed render or send_photo leaves no write, and a
\* non-empty slot refers to a photo that was sent and for which
\* delete_message has not been called since.
C6_SlotOnlyAfterSend ==
    /\ \A s \in Calls({"store"}) :
          /\ s > 1
          /\ trace[s - 1].op = "sendPhoto" /\ trace[s - 1].ok
          /\ trace[s].mid = trace[s - 1].mid
          /\ trace[s].chat = trace[s - 1].chat
    /\ raised => Calls({"store"}) = {}
    /\ \A u \in Users : user_data[u] # 0 =>
          /\ photo_chat[u] # NoChat
          /\ user_data[u] <= lastId[photo_chat[u]]
          /\ \A d \in Calls({"deleteMessage"}) :
                (trace[d].chat = photo_chat[u] /\ trace[d].mid = user_data[u])
                    => /\ u = update.user
                       /\ \E s \in (d + 1)..Len(trace) : trace[s].op = "store"

\* C7: an attraction action whose identifier is not in the catalog renders
\* the not-found notice and nothing else: no send_photo, no delete_message,
\* the slot as it was; the only exception that can leave the handler is the
\* transport error of query.answer or of the edit that shows the notice.
C7_NotFoundLeavesSlot ==
    MissedAttraction =>
        /\ IsPrefix(Ops, <<"answer", "editText">>)
        /\ \A r \in Calls({"editText"}) : trace[r].screen = "NotFound"
        /\ ~AnswerFailed => Calls({"editText"}) # {}
        /\ user_data[update.user] = before.slot
        /\ photo_chat[update.user] = before.chat
        /\ raised => RaisedByLastCall({"answer", "editText"})

\* The not-found notice shown while a photo is tracked.
C7_Witness ==
    /\ MissedAttraction
    /\ ~raised
    /\ before.slot # 0
    /\ Len(trace) = 2 /\ trace[2].ok
    /\ user_data[update.user] = before.slot

\* C8: the slot is chat-scoped: an action handled in one chat empties or
\* overwrites only a slot that tracks a photo of that chat, and
\* delete_message is called only for the chat in which the referenced photo
\* was sent.
C8_ChatScopedSlot ==
    /\ \A d \in Calls({"deleteMessage"}) : trace[d].chat = before.chat
    /\ before.slot # 0 /\ Calls({"pop"}) # {} => before.chat = update.chat


\* The screen an action stands for, read off the action and the catalog.
ListScreen == IF storage = <<>> THEN "EmptyNotice" ELSE "AttractionList"

ScreenOf(u) ==
    CASE u.type = "command" /\ u.name = "start" -> "MainMenu"
      [] u.type = "command" /\ u.name = "help" -> "Help"
      [] u.type = "command" /\ u.name = "attractions" -> ListScreen
      [] u.name = "menu" /\ u.arg = "main" -> "MainMenu"
      [] u.name = "menu" /\ u.arg = "help" -> "Help"
      [] u.name = "menu" /\ u.arg = "attractions" -> ListScreen
      [] u.name = "attraction" ->
            IF \E i \in 1..Len(storage) : storage[i].identifier = u.arg
            THEN "AttractionDetail" ELSE "NotFound"
      [] OTHER -> "Nothing"

\* C9: the rendered screen is a function of the incoming action and the
\* catalog only.  An action issues at most one render call, that call shows
\* the screen of the action whatever the slot held and whatever was handled
\* before, and it is issued whenever the update has something to render into
\* and query.answer did not fail.
C9_ScreenFromActionOnly ==
    /\ Cardinality(Calls(RenderOps)) <= 1
    /\ \A r \in Calls(RenderOps) : trace[r].screen = ScreenOf(update)
    /\ (ScreenOf(update) # "Nothing" /\ HasReplyTarget /\ ~AnswerFailed)
          => Calls(RenderOps) # {}

\* The help screen rendered from a state in which a photo was tracked.
C9_Witness ==
    /\ before.slot # 0
    /\ update.name = "menu" /\ update.arg = "help"
    /\ \E r \in Calls(RenderOps) : trace[r].screen = "Help" /\ trace[r].ok

\* C10: with no photo tracked, clearing is a no-op: delete_message is never
\* called for an empty slot, nothing is raised by the clearing, and the
\* render call of the action is issued as usual.
C10_NoTrackedPhotoNoDelete ==
    /\ \A d \in Calls({"deleteMessage"}) : trace[d].mid # 0
    /\ \A k \in Calls({"pop"}) :
          trace[k].mid = 0 =>
              (k = Len(trace) \/ trace[k + 1].op # "deleteMessage")
    /\ before.slot = 0 =>
          /\ Calls({"deleteMessage"}) = {}
          /\ raised => RaisedByLastCall({"answer", "sendPhoto"} \cup RenderOps)
          /\ (ScreenOf(update) # "Nothing" /\ HasReplyTarget /\ ~AnswerFailed)
                => Calls(RenderOps) # {}

\* A screen rendered after clearing found the slot empty.
C10_Witness ==
    /\ before.slot = 0
    /\ ~raised
    /\ \E k \in Calls({"pop"}) :
          /\ trace[k].mid = 0
          /\ \E r \in (k + 1)..Len(trace) : trace[r].op \in RenderOps /\ trace[r].ok


\* C18: a handler that clears the tracked photo (slot emptied,
\* delete_message called) and meets no transport failure also issues a
\* render call in the same action; no update removes the photo and renders
\* nothing.
C18_ClearImpliesRender ==
    (/\ \E k \in Calls({"pop"}) : trace[k].mid # 0
     /\ Calls({"deleteMessage"}) # {}
     /\ \A i \in 1..Len(trace) : trace[i].ok)
        => Calls(RenderOps) # {}

\* C19: an action issues at most one delete_message call.  The "main" menu
\* action pops the slot twice; the first pop empties it before the deletion
\* is attempted, so the second pop yields nothing and is followed by no
\* delete_message, also when the first deletion failed.
C19_OneDeletePerAction ==
    /\ Cardinality(Calls({"deleteMessage"})) <= 1
    /\ (update.name = "menu" /\ update.arg = "main" /\ ~AnswerFailed) =>
          /\ Cardinality(Calls({"pop"})) = 2
          /\ \A j, k \in Calls({"pop"}) :
                j < k => /\ trace[j].mid = before.slot
                         /\ trace[k].mid = 0
                         /\ k = Len(trace) \/ trace[k + 1].op # "deleteMessage"

\* The "main" menu action with a tracked photo whose deletion failed.
C19_Witness ==
    /\ update.name = "menu" /\ update.arg = "main"
    /\ before.slot # 0
    /\ Cardinality(Calls({"pop"})) = 2
    /\ \E d \in Calls({"deleteMessage"}) : ~trace[d].ok
    /\ \E r \in Calls(RenderOps) : trace[r].screen = "MainMenu" /\ trace[r].ok

\* C20: a menu callback whose tag is none of main, attractions, help is
\* answered and otherwise ignored: the only call is query.answer, nothing is
\* rendered, sent or deleted, no slot, photo or identifier changes, and the
\* only exception possible is the transport error of query.answer itself.
C20_UnknownMenuTagIgnored ==
    [][(update'.name = "menu" /\ update'.arg \notin {"main", "attractions", "help"})
          => /\ Len(trace') = 1
             /\ trace'[1].op = "answer"
             /\ raised' = ~trace'[1].ok
             /\ UNCHANGED <<storage, user_data, photo_chat, photos, lastId>>]_vars

\* An unknown menu tag handled while a photo is tracked.
C20_Witness ==
    /\ update.name = "menu" /\ update.arg = "other"
    /\ before.slot # 0
    /\ user_data[update.user] = before.slot
    /\ Len(trace) = 1 /\ trace[1].ok
    /\ ~raised


\* C15: a failure of a render-path call (edit_message_text, reply_text,
\* send_photo) is not swallowed by the handler: the failed call is the last
\* call of the action, the exception reaches the application, the error
\* handler logs it together with the update that triggered it, and the
\* application goes on handling updates.
C15_RenderFailurePropagates ==
    /\ \A i \in Calls(RenderOps \cup {"sendPhoto"}) :
          ~trace[i].ok =>
              /\ i = Len(trace)
              /\ raised
              /\ error_log = [update |-> update, exc_info |-> TRUE]
    /\ raised => error_log.update = update
    /\ ~raised => error_log = NoLog
    /\ raised => ENABLED Next

\* A failed send_photo, logged with its update.
C15_Witness ==
    /\ raised
    /\ RaisedByLastCall({"sendPhoto"})
    /\ error_log.update = update /\ update.name = "attraction"

\* Photos the transport has sent to a chat.
SentPhotos == {p \in Chats \X (1..MaxPhotos) : p[2] <= lastId[p[1]]}

IsTracked(p) == \E u \in Users : photo_chat[u] = p[1] /\ user_data[u] = p[2]

\* C17: between actions, every photo the bot has sent is either the one a
\* slot refers to or one for which delete_message has been called; no sent
\* photo is both untracked and never passed to delete_message.
C17_NoOrphanedPhoto ==
    \A p \in SentPhotos : IsTracked(p) \/ p \in attempted

-----------------------------------------------------------------------------
\* Catalog queries, on payloads with several identifiers and repeated ones.

\* Longest payload of the catalog specification.
MaxCatalog == 3

CatalogIds == {"a", "b"}
CatalogNames == {"A", "B"}
QueryIds == CatalogIds \cup {"zzz"}

CatalogItems == {GoodItem(id, name) : id \in CatalogIds, name \in CatalogNames}

CatalogSources ==
    {[exists |-> TRUE, payload |-> p, token |-> TRUE] :
        p \in UNION {[1..n -> CatalogItems] : n \in 0..MaxCatalog}}

Query(call, arg, value) == [call |-> call, arg |-> arg, value |-> value]

Others == <<source, phase, startup_error, storage, user_data, photo_chat,
            photos, lastId, attempted, update, before, trace, raised,
            error_log>>

\* storage.all()
CallAll ==
    /\ phase = "running"
    /\ result' = Query("all", "", StorageAll)
    /\ UNCHANGED Others

\* storage.get(identifier)
CallGet ==
    /\ phase = "running"
    /\ \E identifier \in QueryIds :
          result' = Query("get", identifier, StorageGet(identifier))
    /\ UNCHANGED Others

InitCatalog == source \in CatalogSources /\ Boot

NextCatalog == Main \/ CallAll \/ CallGet \/ OnAttractions \/ OnMenu

SpecCatalog == InitCatalog /\ [][NextCatalog]_vars

-----------------------------------------------------------------------------
\* Links of a record, over a range of coordinates.

\* Coordinates run from -MaxCoord to MaxCoord tenths of a degree.
MaxCoord == 12

Coords == (-MaxCoord..MaxCoord) \cup {349, 570, -1800, 1800}

\* Two records: the second has the coordinates of the first, or the same two
\* numbers the other way round.
LinkSources ==
    {[exists |-> TRUE, token |-> TRUE,
      payload |-> <<Item(ItemKeys, "a", "A", Number(lat), Number(lon)),
                    Item(ItemKeys, "b", "B",
                         Number(IF same THEN lat ELSE lon),
                         Number(IF same THEN lon ELSE lat))>>] :
        lat \in Coords, lon \in Coords, same \in BOOLEAN}

\* attraction.map_link
CallMapLink ==
    /\ phase = "running"
    /\ \E i \in 1..Len(storage) :
          result' = Query("map_link", storage[i].identifier,
                          MapLink(storage[i]))
    /\ UNCHANGED Others

\* attraction.route_link
CallRouteLink ==
    /\ phase = "running"
    /\ \E i \in 1..Len(storage) :
          result' = Query("route_link", storage[i].identifier,
                          RouteLink(storage[i]))
    /\ UNCHANGED Others

InitLinks == source \in LinkSources /\ Boot

NextLinks == Main \/ CallMapLink \/ CallRouteLink

SpecLinks == InitLinks /\ [][NextLinks]_vars

-----------------------------------------------------------------------------
\* Vocabulary of the catalog, startup and link properties.

\* The update asks for the list of attractions.
ListRequested ==
    \/ update.type = "command" /\ update.name = "attractions"
    \/ update.name = "menu" /\ update.arg = "attractions"

BackToMain == <<"menu:", "main">>

\* An object of the payload that has every required key and numeric
\* coordinates.
ValidItem(item) ==
    /\ ItemKeys \subseteq item.keys
    /\ item.lat.numeric
    /\ item.lon.numeric

ValidPayload == \A i \in 1..Len(source.payload) : ValidItem(source.payload[i])

InPayload(id) == \E i \in 1..Len(source.payload) : source.payload[i].id = id

\* Reading a link back.
DigitValue(c) == CHOOSE d \in 0..9 : DecimalDigits[d + 1] = c

RECURSIVE DigitsValue(_)
DigitsValue(ds) ==
    IF ds = <<>> THEN 0
    ELSE DigitsValue(SubSeq(ds, 1, Len(ds) - 1)) * 10 + DigitValue(ds[Len(ds)])

First(s, x) == CHOOSE i \in 1..Len(s) :
                  s[i] = x /\ \A j \in 1..(i - 1) : s[j] # x

\* The number of tenths a decimal text "[-]d+.d" stands for.
ParseFloat(cs) ==
    LET neg == cs[1] = "-"
        body == IF neg THEN Tail(cs) ELSE cs
        dot == First(body, ".")
        tenths == DigitsValue(SubSeq(body, 1, dot - 1)) * 10
                    + DigitsValue(SubSeq(body, dot + 1, Len(body)))
    IN IF neg THEN -tenths ELSE tenths

\* The two numbers a link carries between start and stop, split at sep.
ParsePair(link, start, sep, stop) ==
    LET from == First(link, start) + 1
        to == First(link, stop) - 1
        at == First(link, sep)
    IN <<ParseFloat(SubSeq(link, from, at - 1)),
         ParseFloat(SubSeq(link, at + 1, to))>>

\* pt=<longitude>,<latitude>
ParseMapLink(link) ==
    LET p == ParsePair(link, "pt=", ",", "&z=16&l=map")
    IN [latitude |-> p[2], longitude |-> p[1]]

\* rtext=~<latitude>%2C<longitude>
ParseRouteLink(link) ==
    LET p == ParsePair(link, "rtext=~", "%2C", "&rtt=auto")
    IN [latitude |-> p[1], longitude |-> p[2]]

Point(attraction) ==
    [latitude |-> attraction.latitude, longitude |-> attraction.longitude]

-----------------------------------------------------------------------------
\* C11: a rendered list of a catalog of N >= 1 entries carries exactly N entry
\* buttons, the j-th labelled with the name of the j-th entry and targeting
\* attraction:<its identifier>, followed by exactly one back-to-main-menu
\* button; for an empty catalog the render is the notice, without any button.
C11_ListKeyboard ==
    ListRequested =>
        \A r \in Calls(RenderOps) :
            LET N == Len(storage)
                keyboard == trace[r].markup
            IN IF N = 0
               THEN trace[r].screen = "EmptyNotice" /\ keyboard = NoMarkup
               ELSE /\ trace[r].screen = "AttractionList"
                    /\ Len(keyboard) = N + 1
                    /\ \A j \in 1..N :
                          /\ keyboard[j].text = storage[j].name
                          /\ keyboard[j].callback_data =
                                <<"attraction:", storage[j].identifier>>
                    /\ Cardinality({j \in 1..Len(keyboard) :
                          keyboard[j].callback_data = BackToMain}) = 1

C11_Witness ==
    /\ ListRequested
    /\ Len(storage) = 2
    /\ \E r \in Calls(RenderOps) : Len(trace[r].markup) = 3

\* C12: get(id) returns a record iff id is the identifier of some object of
\* the source payload, and absent otherwise; a returned record has the
\* identifier asked for.
C12_GetIffInPayload ==
    result.call = "get" =>
        /\ (result.value # None) <=> InPayload(result.arg)
        /\ result.value # None => result.value.identifier = result.arg

C12_Witness ==
    /\ result.call = "get"
    /\ result.value # None
    /\ Len(storage) = 2
    /\ storage[2].identifier = result.arg

\* C13: all() returns as many records as the accepted payload contained, the
\* i-th record carrying the identifier of the i-th object of the payload.
C13_AllPreservesPayload ==
    result.call = "all" =>
        /\ Len(result.value) = Len(source.payload)
        /\ \A i \in 1..Len(result.value) :
              result.value[i].identifier = source.payload[i].id

\* C14: the process is running only if the file existed, every object of the
\* payload was valid and the token was set, and then the catalog holds the
\* whole payload; in every other case startup ends aborted with an error;
\* while not running there is no catalog and no update has been handled.
C14_StartupAllOrNothing ==
    /\ phase = "running" =>
          /\ source.exists /\ ValidPayload /\ source.token
          /\ startup_error = ""
          /\ \A i \in 1..Len(source.payload) :
                StorageGet(source.payload[i].id) # None
    /\ (phase # "boot" /\ ~(source.exists /\ ValidPayload /\ source.token)) =>
          phase = "aborted" /\ startup_error # ""
    /\ phase # "running" =>
          /\ storage = <<>>
          /\ update = NoUpdate
          /\ trace = <<>>

C14_Witness ==
    /\ phase = "aborted"
    /\ source.exists /\ source.token
    /\ Len(source.payload) = 2
    /\ ValidItem(source.payload[1])
    /\ ~ValidItem(source.payload[2])
    /\ storage = <<>>

\* C16: a link is determined by the coordinates of the record: records with
\* the same coordinates have the same links; the map link carries longitude
\* then latitude after pt=, the route link latitude then longitude after
\* rtext=~ with %2C between, and reading the two numbers back gives the
\* coordinates of the record.
C16_LinksRoundTrip ==
    /\ \A i, j \in 1..Len(storage) :
          Point(storage[i]) = Point(storage[j]) =>
              /\ MapLink(storage[i]) = MapLink(storage[j])
              /\ RouteLink(storage[i]) = RouteLink(storage[j])
    /\ result.call = "map_link" =>
          /\ result.value = MapLink(StorageGet(result.arg))
          /\ ParseMapLink(result.value) = Point(StorageGet(result.arg))
    /\ result.call = "route_link" =>
          /\ result.value = RouteLink(StorageGet(result.arg))
          /\ ParseRouteLink(result.value) = Point(StorageGet(result.arg))

C16_Witness ==
    /\ result.call = "map_link"
    /\ StorageGet(result.arg).latitude < 0
    /\ StorageGet(result.arg).longitude = 349
    /\ Len(storage) = 2
    /\ Point(storage[1]) # Point(storage[2])

====
